---- MODULE Spec2Model ----
(***************************************************************************)
(* Model of src/main.py (crypto-signal-bot): one run of the script.        *)
(*                                                                         *)
(* Numbers.  Prices are integers in ticks of 1e-5 quote units (the         *)
(* precision the message prints the live price with); round(x, 4) is       *)
(* therefore rounding to a multiple of 10 ticks.  The exponential moving   *)
(* averages are kept in fixed point, Scale-ths of a tick; rolling means    *)
(* and the values derived from them (RSI, ATR, volume average) are kept    *)
(* as exact fractions [n, d].  A float that can be NaN or infinite is a    *)
(* record [k |-> "nan" | "inf" | "fin", n, d].                             *)
(* An optional value (Python's None, a local not yet assigned) is a        *)
(* sequence: <<>> for None, <<v>> for the value v.                         *)
(***************************************************************************)
EXTENDS Integers, Sequences, FiniteSets, TLC

VARIABLES
    pc,                  \* position of the script: start, loop, analyze, telegram, returned, done, crashed
    i,                   \* index into COINS of the symbol of the for loop (line 180)
    REQUIRE_HIGH_VOLUME, \* the volume confirmation toggle (line 13)
    coindcx_prices,      \* the live-price mapping of __main__ (line 179), a function on a subset of COINS
    df,                  \* analyze_coin: the candle series (line 90), a sequence of candles
    last,                \* analyze_coin: the indicator values of the last row (lines 95-110), optional
    rsi,                 \* analyze_coin: the rounded RSI (line 105), optional
    live_price,          \* analyze_coin: the live price (line 112), optional
    signal_line,         \* analyze_coin: the words of signal_line (lines 136, 146, 156)
    entry_line,          \* analyze_coin: the words of entry_line (lines 137, 147, 157)
    sl_tp_line,          \* analyze_coin: the words of sl_tp_line (lines 138, 148, 158)
    levels,              \* analyze_coin: entry range, stop_loss, target_price (lines 141-144, 151-154), optional
    outcome,             \* how the current call of analyze_coin ended: none, insufficient_data, missing_price, evaluated
    priceCalls,          \* number of calls of the live-price source
    candleCalls,         \* per symbol, number of calls of the candle source
    telegramCalls,       \* number of calls of the notification sink by the current call of analyze_coin
    analysed,            \* the symbols whose analyze_coin call has returned, in order
    errors,              \* the services whose failure was caught and printed (lines 25, 43, 61)
    exit_code            \* optional: the exit status of the process

vars == <<pc, i, REQUIRE_HIGH_VOLUME, coindcx_prices, df, last, rsi, live_price,
          signal_line, entry_line, sl_tp_line, levels, outcome,
          priceCalls, candleCalls, telegramCalls, analysed, errors, exit_code>>

(***************************************************************************)
(* Program constants                                                       *)
(***************************************************************************)
COINS == <<"BTCUSDT", "ETHUSDT", "SOLUSDT", "SEIUSDT", "POLUSDT">>

MinCandles == 50
Ema20Span == 20
Ema50Span == 50
RsiPeriod == 14
VolWindow == 20
MacdFast == 12
MacdSlow == 26
MacdSignal == 9
AtrPeriod == 14
TrendRows == 3
RsiLong == 55
RsiShort == 45

(***************************************************************************)
(* Fixed point and fractions                                               *)
(***************************************************************************)
Scale == 10^3          \* EMA values are in 1/Scale ticks
WeightScale == 10^3    \* the weight of one row in the adjusted EMA

Fin(n, d) == [k |-> "fin", n |-> n, d |-> d]
NaN == [k |-> "nan", n |-> 0, d |-> 1]
Inf == [k |-> "inf", n |-> 0, d |-> 1]

None == <<>>
Some(v) == <<v>>

Abs(x) == IF x < 0 THEN -x ELSE x
Max2(a, b) == IF a >= b THEN a ELSE b

\* n/d (d > 0) rounded to the nearest integer, ties to even: Python's round
RoundHalfEven(n, d) ==
    LET q == n \div d
        r == n % d
    IN  IF 2 * r > d \/ (2 * r = d /\ q % 2 = 1) THEN q + 1 ELSE q

\* round(x, 4) of x = n/d ticks, in ticks: a multiple of 10 ticks (1e-4)
Round4(n, d) == 10 * RoundHalfEven(n, 10 * d)

(***************************************************************************)
(* Indicators                                                              *)
(***************************************************************************)
Column(d, name) == [k \in 1..Len(d) |-> d[k][name]]

\* Series.ewm(span=span).mean() (adjust=True, lines 95-96): row t is the mean
\* of x[t], x[t-1], ..., x[1] with weights (1-alpha)^j, alpha = 2/(span+1),
\* computed as pandas does, row by row: the weight of the old mean decays by
\* 1-alpha = (span-1)/(span+1), and avg moves towards x[t] by the share of
\* the new row's weight.  old_wt is in 1/WeightScale, ys in 1/Scale ticks.
RECURSIVE EwmAdjAcc(_, _, _, _, _)
EwmAdjAcc(x, span, t, old_wt, ys) ==
    IF t > Len(x) THEN ys
    ELSE IF t = 1 THEN EwmAdjAcc(x, span, 2, WeightScale, <<x[1] * Scale>>)
    ELSE LET wt == (old_wt * (span - 1)) \div (span + 1) + WeightScale
             avg == ys[t - 1]
         IN  EwmAdjAcc(x, span, t + 1, wt,
                       Append(ys, avg + ((x[t] * Scale - avg) * WeightScale) \div wt))

EwmAdjusted(x, span) == EwmAdjAcc(x, span, 1, 0, <<>>)

\* Series.ewm(span=span, adjust=False).mean() (lines 74, 75, 77): y[1] = x[1],
\* y[t] = (1-alpha) y[t-1] + alpha x[t].  x is a sequence in fixed point.
RECURSIVE EwmUnadjAcc(_, _, _, _)
EwmUnadjAcc(x, span, t, ys) ==
    IF t > Len(x) THEN ys
    ELSE EwmUnadjAcc(x, span, t + 1,
            Append(ys, IF t = 1 THEN x[1]
                       ELSE ((span - 1) * ys[t - 1] + 2 * x[t]) \div (span + 1)))

EwmUnadjusted(x, span) == EwmUnadjAcc(x, span, 1, <<>>)

\* a division that yields NaN for every zero divisor
FloatDiv_ZeroIsNaN(a, b) ==
    IF a.k = "nan" \/ b.k = "nan" \/ b.n = 0 THEN NaN
    ELSE Fin(a.n * b.d, a.d * b.n)

\* a / b of two floats that are finite and >= 0, nan or inf: IEEE division,
\* which pandas does not turn into an exception (lines 70-71)
FloatDiv(a, b) ==
    IF a.k = "nan" \/ b.k = "nan" THEN NaN
    ELSE IF b.n = 0 THEN (IF a.n = 0 THEN NaN ELSE Inf)
    ELSE Fin(a.n * b.d, a.d * b.n)

RECURSIVE SumOver(_, _, _)
SumOver(f, lo, hi) == IF lo > hi THEN 0 ELSE f[lo] + SumOver(f, lo + 1, hi)

\* Series.rolling(window).mean() at row t of a series whose rows before
\* `first` are NaN: NaN until the window holds `window` numbers
RollingMean(f, first, window, t) ==
    IF t - window + 1 < first THEN NaN
    ELSE Fin(SumOver(f, t - window + 1, t), window)

\* the 14-row means calculate_rsi divides (lines 65-69), at row t: the first
\* row of delta is NaN
AvgGain(series, period, t) ==
    RollingMean([k \in 2..Len(series) |-> Max2(series[k] - series[k - 1], 0)], 2, period, t)

AvgLoss(series, period, t) ==
    RollingMean([k \in 2..Len(series) |-> Max2(series[k - 1] - series[k], 0)], 2, period, t)

\* calculate_rsi (lines 64-71) at row t: 100 - 100 / (1 + rs)
calculate_rsi(series, period, t) ==
    LET rs == FloatDiv(AvgGain(series, period, t), AvgLoss(series, period, t))
    IN  IF rs.k = "nan" THEN NaN
        ELSE IF rs.k = "inf" THEN Fin(100, 1)
        ELSE Fin(100 * rs.n, rs.n + rs.d)

\* calculate_macd (lines 73-78) at the last row, in fixed point
calculate_macd(d) ==
    LET x == [k \in 1..Len(d) |-> d[k].close * Scale]
        exp1 == EwmUnadjusted(x, MacdFast)
        exp2 == EwmUnadjusted(x, MacdSlow)
        macd_line == [k \in 1..Len(d) |-> exp1[k] - exp2[k]]
        signal == EwmUnadjusted(macd_line, MacdSignal)
    IN  [macd |-> macd_line[Len(d)], macd_signal |-> signal[Len(d)]]

\* the true range of row k (lines 81-86): the row-wise max skips the NaN of
\* the first row's prev_close
TrueRange(d, k) ==
    IF k = 1 THEN d[k].high - d[k].low
    ELSE Max2(d[k].high - d[k].low,
              Max2(Abs(d[k].high - d[k - 1].close), Abs(d[k].low - d[k - 1].close)))

\* calculate_atr (lines 80-87) at row t
calculate_atr(d, period, t) ==
    RollingMean([k \in 1..Len(d) |-> TrueRange(d, k)], 1, period, t)

\* lines 95-110: the indicator columns, read at the last row (and, for the
\* two EMAs, at the last three rows: line 123)
Indicators(d) ==
    LET n == Len(d)
        close == Column(d, "close")
        ema20 == EwmAdjusted(close, Ema20Span)
        ema50 == EwmAdjusted(close, Ema50Span)
        m == calculate_macd(d)
    IN  [ema20 |-> ema20[n],
         ema50 |-> ema50[n],
         ema20_tail |-> [j \in 1..TrendRows |-> ema20[n - TrendRows + j]],
         ema50_tail |-> [j \in 1..TrendRows |-> ema50[n - TrendRows + j]],
         rsi |-> calculate_rsi(close, RsiPeriod, n),
         volume |-> d[n].volume,
         vol_avg |-> RollingMean(Column(d, "volume"), 1, VolWindow, n),
         macd |-> m.macd,
         macd_signal |-> m.macd_signal,
         atr |-> calculate_atr(d, AtrPeriod, n)]

(***************************************************************************)
(* The decision of analyze_coin                                            *)
(***************************************************************************)
\* the guard with the bound off by one
EnoughCandles_OffByOne(d) == ~(Len(d) = 0 \/ Len(d) < MinCandles - 1)

\* line 91: the guard of the evaluation
EnoughCandles(d) == ~(Len(d) = 0 \/ Len(d) < MinCandles)

\* round(x), without ndigits: Python raises ValueError for NaN
PyRound1_RaisesOnNaN(x) ==
    IF x.k = "nan" THEN [exc |-> TRUE, nan |-> TRUE, tenths |-> 0]
    ELSE [exc |-> FALSE, nan |-> FALSE, tenths |-> RoundHalfEven(10 * x.n, x.d)]

\* round(x, 1) of a float (line 105), in tenths: NaN stays NaN, nothing is raised
PyRound1(x) ==
    IF x.k = "nan" THEN [exc |-> FALSE, nan |-> TRUE, tenths |-> 0]
    ELSE [exc |-> FALSE, nan |-> FALSE, tenths |-> RoundHalfEven(10 * x.n, x.d)]

\* dict.get(symbol, 0): a default price for a missing key
DictGet_DefaultZero(prices, symbol) ==
    IF symbol \in DOMAIN prices THEN Some(prices[symbol]) ELSE Some(0)

\* dict.get(symbol) (line 112): None for a missing key
DictGet(prices, symbol) ==
    IF symbol \in DOMAIN prices THEN Some(prices[symbol]) ELSE None

\* rsi > bound and rsi < bound (lines 140, 150): False for NaN
RsiAbove(r, bound) == ~r.nan /\ r.tenths > 10 * bound
RsiBelow(r, bound) == ~r.nan /\ r.tenths < 10 * bound

\* lines 117-121, buffer = 0.001: live_price against ema * (1 +- buffer)
AboveEma(price, ema) == price * Scale * 1000 > ema * 1001
BelowEma(price, ema) == price * Scale * 1000 < ema * 999

\* lines 123-125
TrendUp(ind) == \A j \in 1..TrendRows : ind.ema20_tail[j] > ind.ema50_tail[j]
TrendDown(ind) == \A j \in 1..TrendRows : ind.ema20_tail[j] < ind.ema50_tail[j]

\* line 126: vol > 1.5 * vol_avg
HighVolume(ind) ==
    ind.vol_avg.k = "fin" /\ 2 * ind.volume * ind.vol_avg.d > 3 * ind.vol_avg.n

\* line 140
LongGate(ind, r, price) ==
    /\ AboveEma(price, ind.ema20)
    /\ AboveEma(price, ind.ema50)
    /\ RsiAbove(r, RsiLong)
    /\ TrendUp(ind)
    /\ ind.macd > ind.macd_signal

\* line 150
ShortGate(ind, r, price) ==
    /\ BelowEma(price, ind.ema20)
    /\ BelowEma(price, ind.ema50)
    /\ RsiBelow(r, RsiShort)
    /\ TrendDown(ind)
    /\ ind.macd < ind.macd_signal

\* the full variant for high volume only, the toggle ignored
FullVariant_IgnoreToggle(high_volume, require) == high_volume

\* lines 146 and 156: the condition that picks the full variant
FullVariant(high_volume, require) == high_volume \/ ~require

NoSignalLine == <<"Strategy", "Signal:", "No", "signal">>
LongFullLine == <<"Strategy", "Signal:", "LONG", "Entry">>
LongLowLine == <<"Strategy", "Signal:", "LONG", "Valid", "but", "Low", "Volume">>
ShortFullLine == <<"Strategy", "Signal:", "SHORT", "Entry">>
ShortLowLine == <<"Strategy", "Signal:", "SHORT", "Valid", "but", "Low", "Volume">>
EntryLine == <<"Entry", "Range">>
SlTpLine == <<"SL", "TP">>

\* `word in line` (line 174), on the words of the line
Contains(line, word) == \E j \in 1..Len(line) : line[j] = word

\* a test for the word of the full variants only
ShouldNotify_EntryOnly(line) == Contains(line, "Entry")

\* line 174
ShouldNotify(line) == Contains(line, "LONG") \/ Contains(line, "SHORT")

\* lines 141-144: price -/+ factor * atr and the entry range, each round(.., 4)
LongLevels(ind, price) ==
    [entry_price_min |-> Round4(ind.ema20, Scale),
     entry_price_max |-> Round4(ind.ema20 * 1002, Scale * 1000),
     stop_loss |-> Round4(10 * price * ind.atr.d - 12 * ind.atr.n, 10 * ind.atr.d),
     target_price |-> Round4(price * ind.atr.d + 2 * ind.atr.n, ind.atr.d)]

\* lines 151-154
ShortLevels(ind, price) ==
    [entry_price_min |-> Round4(ind.ema20 * 998, Scale * 1000),
     entry_price_max |-> Round4(ind.ema20, Scale),
     stop_loss |-> Round4(10 * price * ind.atr.d + 12 * ind.atr.n, 10 * ind.atr.d),
     target_price |-> Round4(price * ind.atr.d - 2 * ind.atr.n, ind.atr.d)]

\* lines 136-158: the three lines of the message and the levels
Decide(ind, r, price, require) ==
    IF LongGate(ind, r, price)
    THEN [signal_line |-> IF FullVariant(HighVolume(ind), require)
                          THEN LongFullLine ELSE LongLowLine,
          entry_line |-> EntryLine, sl_tp_line |-> SlTpLine,
          levels |-> Some(LongLevels(ind, price))]
    ELSE IF ShortGate(ind, r, price)
    THEN [signal_line |-> IF FullVariant(HighVolume(ind), require)
                          THEN ShortFullLine ELSE ShortLowLine,
          entry_line |-> EntryLine, sl_tp_line |-> SlTpLine,
          levels |-> Some(ShortLevels(ind, price))]
    ELSE [signal_line |-> NoSignalLine, entry_line |-> <<>>, sl_tp_line |-> <<>>,
          levels |-> None]

(***************************************************************************)
(* The external services: what a run can receive                           *)
(***************************************************************************)
ExtraCandles == 2      \* the longest series has MinCandles + ExtraCandles candles
MaxStep == 2           \* the slope of a trending series, in ticks per candle

Symbols == {COINS[j] : j \in 1..Len(COINS)}

\* 14 closing deltas with gains of 60 and losses of 49: RSI = 55.0459
EdgeTail == <<-7, -7, -7, -7, -7, -7, -7, 8, 8, 8, 9, 9, 9, 9>>
\* 14 closing deltas with gains of 63 and losses of 42: RSI = 60
MidTail == <<-6, -6, -6, -6, -6, -6, -6, 9, 9, 9, 9, 9, 9, 9>>

\* a series of n candles: a line of slope `step` from 200 ticks, then the
\* deltas of `tail`; high and low are `spread` around the close, the volume
\* is 100 but for the last candle's
Closes(n, step, tail) ==
    LET m == n - Len(tail)
        RECURSIVE C(_)
        C(k) == IF k <= m THEN 200 + step * (k - 1) ELSE C(k - 1) + tail[k - m]
    IN  [k \in 1..n |-> C(k)]

CandleSeries(n, step, tail, spread, vol) ==
    LET c == Closes(n, step, tail)
    IN  [k \in 1..n |-> [close |-> c[k], high |-> c[k] + spread, low |-> c[k] - spread,
                         volume |-> IF k = n THEN vol ELSE 100]]

\* the bodies of the candle source's answers that parse (lines 30-41)
CandleResponses ==
    {CandleSeries(n, dir * MaxStep, [j \in 1..Len(tail) |-> dir * tail[j]], spread, vol) :
        n \in {MinCandles, MinCandles + ExtraCandles}, dir \in {-1, 1},
        tail \in {<<>>, EdgeTail, MidTail}, spread \in {0, 1}, vol \in {100, 200}}
    \cup {CandleSeries(n, 0, <<>>, spread, vol) :
        n \in {MinCandles, MinCandles + ExtraCandles}, spread \in {0, 1}, vol \in {100, 200}}
    \cup {CandleSeries(n, dir * MaxStep, <<>>, 1, 200) :
        n \in {0, MinCandles - 1}, dir \in {-1, 0, 1}}

PriceLevels == {52, 200, 398}

\* an item of the ticker: its last_price is a number, is missing or empty, or
\* is text float() rejects (lines 52-58); a market may also not be listed
TickerResponses ==
    {[s \in listed |-> IF s \in good THEN [kind |-> "num", val |-> p]
                       ELSE [kind |-> bad, val |-> 0]] :
        listed \in {Symbols, Symbols \ {COINS[2]}, {}},
        good \in {Symbols, Symbols \ {COINS[2]}},
        bad \in {"empty", "text"},
        p \in PriceLevels}

\* Indicators(d) for every series the candle source can answer with: the
\* table is evaluated once, and the run looks the series up in it
IndicatorTable == {<<d, Indicators(d)>> : d \in {r \in CandleResponses : Len(r) > 0}}

IndicatorsOf(d) == (CHOOSE p \in IndicatorTable : p[1] = d)[2]

(***************************************************************************)
(* The functions that call the services                                    *)
(***************************************************************************)
\* a function's result: its value and what it printed, or the exception it
\* lets out
Returns(v) == [exc |-> FALSE, val |-> v, printed |-> {}]
Caught(v, service) == [exc |-> FALSE, val |-> v, printed |-> {service}]
Raises == [exc |-> TRUE, val |-> <<>>, printed |-> {}]

\* get_binance_candles without its try: the exception leaves the function
CandlesExcept_Reraise == Raises

\* lines 42-44: the except clause of get_binance_candles
CandlesExcept == Caught(<<>>, "candles")

\* lines 60-62: the except clause of get_coindcx_prices
PricesExcept == Caught(<<>>, "prices")

\* lines 24-25: the except clause of send_telegram
TelegramExcept == Caught(<<>>, "telegram")

\* get_binance_candles (lines 27-44) on the service's answer
get_binance_candles(resp) ==
    IF resp.kind = "error" THEN CandlesExcept ELSE Returns(resp.rows)

\* get_coindcx_prices (lines 46-62) on the service's answer
get_coindcx_prices(resp) ==
    IF resp.kind = "error" THEN PricesExcept
    ELSE LET kept == {s \in DOMAIN resp.items : resp.items[s].kind = "num"}
         IN  Returns([s \in kept |-> resp.items[s].val])

\* send_telegram (lines 15-25) on the outcome of the post
send_telegram(resp) ==
    IF resp.kind = "error" THEN TelegramExcept ELSE Returns(<<>>)

\* a loop that fetches again after a failure
AfterCandles_Retry(resp) == IF resp.kind = "error" THEN "loop" ELSE "analyze"

\* where the script goes after the call: on, with the result, also when the
\* call failed and was caught; never back to the call (lines 90-91, 175)
AfterCandles(resp) == "analyze"
AfterTelegram(resp) == "returned"

(***************************************************************************)
(* The run                                                                 *)
(***************************************************************************)
Init ==
    /\ pc = "start"
    /\ i = 1
    /\ REQUIRE_HIGH_VOLUME \in BOOLEAN
    /\ coindcx_prices = <<>>
    /\ df = <<>>
    /\ last = None
    /\ rsi = None
    /\ live_price = None
    /\ signal_line = <<>>
    /\ entry_line = <<>>
    /\ sl_tp_line = <<>>
    /\ levels = None
    /\ outcome = "none"
    /\ priceCalls = 0
    /\ candleCalls = [s \in Symbols |-> 0]
    /\ telegramCalls = 0
    /\ analysed = <<>>
    /\ errors = {}
    /\ exit_code = None

Locals == <<df, last, rsi, live_price, signal_line, entry_line, sl_tp_line, levels, outcome>>
Counters == <<priceCalls, candleCalls, telegramCalls>>

\* an exception nothing catches ends the process with status 1
Crash ==
    /\ pc' = "crashed"
    /\ exit_code' = Some(1)
    /\ UNCHANGED <<i, analysed>>

\* analyze_coin returns
Return ==
    /\ pc' = "returned"
    /\ UNCHANGED <<i, analysed, exit_code>>

\* line 179
GetCoindcxPrices(resp) ==
    /\ pc = "start"
    /\ priceCalls' = priceCalls + 1
    /\ LET r == get_coindcx_prices(resp)
       IN  IF r.exc
           THEN Crash /\ UNCHANGED <<coindcx_prices, errors>>
           ELSE /\ coindcx_prices' = r.val
                /\ errors' = errors \cup r.printed
                /\ pc' = "loop"
                /\ UNCHANGED <<i, analysed, exit_code>>
    /\ UNCHANGED <<REQUIRE_HIGH_VOLUME, candleCalls, telegramCalls>>
    /\ UNCHANGED Locals

GetCoindcxPricesOk == \E items \in TickerResponses : GetCoindcxPrices([kind |-> "ok", items |-> items])
GetCoindcxPricesFail == GetCoindcxPrices([kind |-> "error"])

\* lines 180-181 and 90: the loop calls analyze_coin, which fetches the candles
GetBinanceCandles(resp) ==
    /\ pc = "loop"
    /\ i <= Len(COINS)
    /\ candleCalls' = [candleCalls EXCEPT ![COINS[i]] = @ + 1]
    /\ LET r == get_binance_candles(resp)
       IN  IF r.exc
           THEN Crash /\ UNCHANGED <<df, errors>>
           ELSE /\ df' = r.val
                /\ errors' = errors \cup r.printed
                /\ pc' = AfterCandles(resp)
                /\ UNCHANGED <<i, analysed, exit_code>>
    /\ UNCHANGED <<last, rsi, live_price, signal_line, entry_line, sl_tp_line, levels, outcome>>
    /\ UNCHANGED <<REQUIRE_HIGH_VOLUME, coindcx_prices, priceCalls, telegramCalls>>

GetBinanceCandlesOk == \E rows \in CandleResponses : GetBinanceCandles([kind |-> "ok", rows |-> rows])
GetBinanceCandlesFail == GetBinanceCandles([kind |-> "error"])

\* lines 91-174: analyze_coin from the length check to the decision to notify
AnalyzeCoin ==
    /\ pc = "analyze"
    /\ IF ~EnoughCandles(df)
       THEN \* lines 91-93
            /\ outcome' = "insufficient_data"
            /\ Return
            /\ UNCHANGED <<last, rsi, live_price, signal_line, entry_line, sl_tp_line, levels>>
       ELSE LET ind == IndicatorsOf(df)
                r == PyRound1(ind.rsi)
                price == DictGet(coindcx_prices, COINS[i])
            IN  IF r.exc
                THEN /\ Crash
                     /\ last' = Some(ind)
                     /\ UNCHANGED <<rsi, live_price, signal_line, entry_line, sl_tp_line,
                                    levels, outcome>>
                ELSE IF price = None
                THEN \* lines 113-115
                     /\ last' = Some(ind)
                     /\ rsi' = Some(r)
                     /\ outcome' = "missing_price"
                     /\ Return
                     /\ UNCHANGED <<live_price, signal_line, entry_line, sl_tp_line, levels>>
                ELSE LET m == Decide(ind, r, price[1], REQUIRE_HIGH_VOLUME)
                     IN  /\ last' = Some(ind)
                         /\ rsi' = Some(r)
                         /\ live_price' = price
                         /\ signal_line' = m.signal_line
                         /\ entry_line' = m.entry_line
                         /\ sl_tp_line' = m.sl_tp_line
                         /\ levels' = m.levels
                         /\ outcome' = "evaluated"
                         /\ IF ShouldNotify(m.signal_line)
                            THEN /\ pc' = "telegram"
                                 /\ UNCHANGED <<i, analysed, exit_code>>
                            ELSE Return
    /\ UNCHANGED <<REQUIRE_HIGH_VOLUME, coindcx_prices, df, errors>>
    /\ UNCHANGED Counters

\* line 175
SendTelegram(resp) ==
    /\ pc = "telegram"
    /\ telegramCalls' = telegramCalls + 1
    /\ LET r == send_telegram(resp)
       IN  IF r.exc THEN Crash /\ UNCHANGED errors
           ELSE /\ errors' = errors \cup r.printed
                /\ pc' = AfterTelegram(resp)
                /\ UNCHANGED <<i, analysed, exit_code>>
    /\ UNCHANGED <<REQUIRE_HIGH_VOLUME, coindcx_prices, priceCalls, candleCalls>>
    /\ UNCHANGED Locals

SendTelegramOk == SendTelegram([kind |-> "ok"])
SendTelegramFail == SendTelegram([kind |-> "error"])

\* line 180: the call has returned, its locals are gone, and the for loop
\* takes the next symbol
NextSymbol ==
    /\ pc = "returned"
    /\ pc' = "loop"
    /\ i' = i + 1
    /\ analysed' = Append(analysed, COINS[i])
    /\ df' = <<>>
    /\ last' = None
    /\ rsi' = None
    /\ live_price' = None
    /\ signal_line' = <<>>
    /\ entry_line' = <<>>
    /\ sl_tp_line' = <<>>
    /\ levels' = None
    /\ outcome' = "none"
    /\ telegramCalls' = 0
    /\ UNCHANGED <<REQUIRE_HIGH_VOLUME, coindcx_prices, errors, exit_code, priceCalls, candleCalls>>

\* the loop is over and the script ends
Exit ==
    /\ pc = "loop"
    /\ i > Len(COINS)
    /\ pc' = "done"
    /\ exit_code' = Some(0)
    /\ UNCHANGED <<i, REQUIRE_HIGH_VOLUME, coindcx_prices, analysed, errors>>
    /\ UNCHANGED Locals
    /\ UNCHANGED Counters

Next ==
    \/ GetCoindcxPricesOk
    \/ GetCoindcxPricesFail
    \/ GetBinanceCandlesOk
    \/ GetBinanceCandlesFail
    \/ AnalyzeCoin
    \/ SendTelegramOk
    \/ SendTelegramFail
    \/ NextSymbol
    \/ Exit

Spec == Init /\ [][Next]_vars

\* every call has a 5 second timeout (lines 23, 30, 49) and everything
\* else is straight-line code: a step that can be taken is taken
FairSpec == Spec /\ WF_vars(Next)

(***************************************************************************)
(* Properties                                                              *)
(***************************************************************************)
Symbol == COINS[i]
InCall == pc \in {"analyze", "telegram", "returned", "crashed"}
AfterAnalysis == pc \in {"telegram", "returned", "crashed"}
PricePresent == Symbol \in DOMAIN coindcx_prices
DirectionalLines == {LongFullLine, LongLowLine, ShortFullLine, ShortLowLine}
Directional == signal_line \in DirectionalLines
IsLong == signal_line \in {LongFullLine, LongLowLine}
IsShort == signal_line \in {ShortFullLine, ShortLowLine}
NothingSent == telegramCalls = 0 /\ pc # "telegram"
IsPrefix(s, u) == Len(s) <= Len(u) /\ \A j \in 1..Len(s) : s[j] = u[j]
FlatSeries(d) == \A j \in 1..Len(d) : d[j].close = d[1].close
LastCloses == Column(df, "close")

\* C1: a call of analyze_coin whose candle series has fewer than 50 candles
\* (the empty series of a failed fetch included) ends in the
\* insufficient-data outcome whatever the other inputs are: no indicator is
\* evaluated, no signal line is produced, nothing is sent.
C1_InsufficientData ==
    (InCall /\ Len(df) < MinCandles) =>
        /\ pc \in {"analyze", "returned"}
        /\ pc = "returned" => outcome = "insufficient_data"
        /\ last = None /\ rsi = None /\ live_price = None
        /\ signal_line = <<>> /\ levels = None
        /\ NothingSent

C1_Witness ==
    /\ pc = "returned" /\ outcome = "insufficient_data"
    /\ Len(df) = MinCandles - 1
    /\ PricePresent /\ ~REQUIRE_HIGH_VOLUME

\* C2 as stated: a symbol absent from the live-price mapping always ends in
\* the missing-price outcome.
C2_Original_AbsentIsMissingPrice ==
    (pc = "returned" /\ ~PricePresent) => outcome = "missing_price"

\* C2 as amended: a symbol absent from the live-price mapping ends in the
\* missing-price outcome when its candle series has at least 50 candles, and
\* in the insufficient-data outcome otherwise (the length check comes
\* first); in both cases no signal line is produced and nothing is sent.
C2_AbsentPrice ==
    (AfterAnalysis /\ ~PricePresent) =>
        /\ pc = "returned"
        /\ outcome = (IF Len(df) >= MinCandles THEN "missing_price" ELSE "insufficient_data")
        /\ live_price = None /\ signal_line = <<>> /\ levels = None
        /\ NothingSent

C2_Witness ==
    /\ pc = "returned" /\ outcome = "missing_price"
    /\ ~PricePresent /\ DOMAIN coindcx_prices # {}
    /\ Len(df) >= MinCandles

\* the gates of the specification, on the RSI as calculate_rsi computed it
SpecRsiAbove(x, bound) == x.k = "fin" /\ x.n > bound * x.d
SpecRsiBelow(x, bound) == x.k = "fin" /\ x.n < bound * x.d
SpecLong(ind, price) ==
    /\ price * Scale * 1000 > ind.ema20 * 1001
    /\ price * Scale * 1000 > ind.ema50 * 1001
    /\ SpecRsiAbove(ind.rsi, 55)
    /\ \A j \in 1..3 : ind.ema20_tail[j] > ind.ema50_tail[j]
    /\ ind.macd > ind.macd_signal
SpecShort(ind, price) ==
    /\ price * Scale * 1000 < ind.ema20 * 999
    /\ price * Scale * 1000 < ind.ema50 * 999
    /\ SpecRsiBelow(ind.rsi, 45)
    /\ \A j \in 1..3 : ind.ema20_tail[j] < ind.ema50_tail[j]
    /\ ind.macd < ind.macd_signal

\* C3: for an evaluated symbol the direction is Long exactly when the long
\* gate of the specification holds, Short exactly when the short gate holds,
\* and no-signal otherwise, the RSI of the gates being the computed RSI(14)
\* of the last candle.
C3_DirectionIsSpecGate ==
    outcome = "evaluated" =>
        /\ IsLong <=> SpecLong(last[1], live_price[1])
        /\ IsShort <=> SpecShort(last[1], live_price[1])
        /\ signal_line = NoSignalLine <=>
              ~SpecLong(last[1], live_price[1]) /\ ~SpecShort(last[1], live_price[1])

\* the last candle's volume is strictly greater than 1.5 times the mean
\* volume of the last 20 candles
VolumeIsHigh ==
    LET n == Len(df)
    IN  40 * df[n].volume > 3 * SumOver(Column(df, "volume"), n - 19, n)

\* C4: when a directional gate passes, the volume policy only picks the
\* variant: full when the toggle is off or the volume is high, low-volume
\* exactly when the toggle is on and the volume is not high; never no-signal.
C4_VolumePolicy ==
    (outcome = "evaluated" /\
        (LongGate(last[1], rsi[1], live_price[1]) \/ ShortGate(last[1], rsi[1], live_price[1]))) =>
        /\ Directional
        /\ (~REQUIRE_HIGH_VOLUME \/ VolumeIsHigh) <=> signal_line \in {LongFullLine, ShortFullLine}
        /\ (REQUIRE_HIGH_VOLUME /\ ~VolumeIsHigh) <=> signal_line \in {LongLowLine, ShortLowLine}

C4_Witness ==
    /\ outcome = "evaluated"
    /\ LongGate(last[1], rsi[1], live_price[1])
    /\ ~REQUIRE_HIGH_VOLUME /\ ~VolumeIsHigh
    /\ signal_line = LongFullLine

\* C5 as stated: whenever the 14-period average loss of the last row is
\* zero, the RSI of that row is NaN.
C5_Original_ZeroLossIsNaN ==
    (last # None /\ AvgLoss(LastCloses, RsiPeriod, Len(df)).n = 0) => last[1].rsi.k = "nan"

\* C5 as amended: when the 14-period average loss of the last row is zero,
\* the RSI of that row is NaN exactly when the average gain is zero too; with
\* a positive average gain it is 100.
C5_ZeroLossRsi ==
    (last # None /\ AvgLoss(LastCloses, RsiPeriod, Len(df)).n = 0) =>
        IF AvgGain(LastCloses, RsiPeriod, Len(df)).n = 0
        THEN last[1].rsi.k = "nan"
        ELSE last[1].rsi.k = "fin" /\ last[1].rsi.n = 100 * last[1].rsi.d

C5_Witness ==
    /\ last # None
    /\ AvgLoss(LastCloses, RsiPeriod, Len(df)).n = 0
    /\ AvgGain(LastCloses, RsiPeriod, Len(df)).n > 0
    /\ last[1].rsi = Fin(100, 1)

\* C6: the analysis of a flat series of at least 50 candles raises nothing;
\* with any live price, volume and toggle the symbol is classified as
\* no-signal, and nothing is sent.
C6_FlatSeries ==
    (AfterAnalysis /\ Len(df) >= MinCandles /\ FlatSeries(df)) =>
        /\ pc = "returned"
        /\ exit_code = None
        /\ PricePresent => (outcome = "evaluated" /\ signal_line = NoSignalLine
                            /\ entry_line = <<>> /\ sl_tp_line = <<>>)
        /\ NothingSent

C6_Witness ==
    /\ pc = "returned" /\ outcome = "evaluated"
    /\ Len(df) >= MinCandles /\ FlatSeries(df)
    /\ live_price = Some(398)
    /\ rsi # None /\ rsi[1].nan
    /\ signal_line = NoSignalLine

\* C7: for a directional signal with ATR > 0, stop-loss and take-profit are
\* live price -/+ 1.2 ATR and +/- 2 ATR, so that they lie strictly on
\* opposite sides of the live price.
C7_RiskLevels ==
    (outcome = "evaluated" /\ Directional /\ last[1].atr.n > 0) =>
        LET price == live_price[1]
            atr == last[1].atr
            sl == levels[1].stop_loss
            tp == levels[1].target_price
        IN  IF IsLong
            THEN /\ 10 * atr.d * sl = 10 * atr.d * price - 12 * atr.n
                 /\ atr.d * tp = atr.d * price + 2 * atr.n
                 /\ sl < price /\ price < tp
            ELSE /\ 10 * atr.d * sl = 10 * atr.d * price + 12 * atr.n
                 /\ atr.d * tp = atr.d * price - 2 * atr.n
                 /\ tp < price /\ price < sl

\* C8: whatever fails, nothing is raised out of the run: the symbols are
\* analysed in list order, every one of them eventually, and the process
\* then ends with exit status 0.
C8_RunCompletes ==
    /\ [](pc # "crashed" /\ IsPrefix(analysed, COINS) /\ exit_code \in {None, Some(0)})
    /\ <>(pc = "done" /\ analysed = COINS /\ exit_code = Some(0))

C8_Witness ==
    /\ pc = "done" /\ exit_code = Some(0) /\ analysed = COINS
    /\ errors = {"prices", "candles"}

\* C9: no call is repeated: the live-price source is called once, before
\* any candle fetch; the candle source once per symbol, in list order; the
\* notification sink at most once in a call of analyze_coin, which is made
\* once per symbol.
C9_NoRetry ==
    /\ priceCalls = (IF pc = "start" THEN 0 ELSE 1)
    /\ \A j \in 1..Len(COINS) :
          candleCalls[COINS[j]] = (IF j < i \/ (j = i /\ InCall) THEN 1 ELSE 0)
    /\ telegramCalls <= 1
    /\ pc = "done" => \A s \in Symbols : candleCalls[s] = 1

C9_Witness ==
    /\ pc = "done"
    /\ errors = {"prices", "candles"}
    /\ priceCalls = 1
    /\ \A s \in Symbols : candleCalls[s] = 1

\* C10: a call of analyze_coin calls the notification sink exactly when its
\* signal is directional, the low-volume variants included, and never for a
\* no-signal, insufficient-data or missing-price outcome; the entry-range
\* and stop-loss/take-profit lines are non-empty exactly when the signal is
\* directional.
C10_NotifyIffDirectional ==
    /\ pc = "telegram" => (Directional /\ telegramCalls = 0)
    /\ pc = "returned" => (telegramCalls = 1 <=> Directional)
    /\ pc = "returned" => (Directional => outcome = "evaluated")
    /\ AfterAnalysis => (entry_line # <<>> <=> Directional)
    /\ AfterAnalysis => (sl_tp_line # <<>> <=> Directional)

C10_Witness ==
    /\ pc = "returned"
    /\ signal_line = ShortLowLine
    /\ telegramCalls = 1
    /\ "telegram" \in errors

====
